---- MODULE Spec2Model ----
(***************************************************************************)
(* Model of the App component of src/src/App.tsx: the restoration          *)
(* workflow (upload, restore, reset, download), the restoration options,   *)
(* the prompt sent to the remote service and the before/after comparison   *)
(* slider.  The variables are the component's useState cells plus what is  *)
(* in flight: file reads started by handleFileUpload, remote calls awaited *)
(* by handleRestore and the global listeners added by the drag effect.     *)
(* A handler fires only through a control the current render shows and     *)
(* leaves enabled; each action is one handler (or one callback) run to its *)
(* next suspension point, with React's batched state updates applied.      *)
(***************************************************************************)
EXTENDS Integers, Sequences, FiniteSets, TLC

VARIABLES
    originalImage,     \* useState<string|null>: data URL of the upload, Null when absent
    restoredImage,     \* useState<string|null>: data URL of the result, Null when absent
    isProcessing,      \* useState(false)
    error,             \* useState<string|null>: NoError when null
    sliderPosition,    \* useState(50): a float
    quality,           \* 'Standard' | 'High' | 'Ultra'
    isColorized,       \* boolean
    artStyle,          \* 'Realistic' | 'OilPainting'
    isDragging,        \* useState(false)
    pendingReads,      \* FileReader reads started and not yet loaded: file name -> count
    inflight,          \* generateContent calls awaited, in dispatch order
    releaseListeners,  \* window mouseup/touchend listeners currently attached
    lastOp             \* the handler or callback that ran last

vars == <<originalImage, restoredImage, isProcessing, error, sliderPosition,
          quality, isColorized, artStyle, isDragging, pendingReads, inflight,
          releaseListeners, lastOp>>

workflow == <<originalImage, restoredImage, isProcessing, error>>
options  == <<quality, isColorized, artStyle>>

-----------------------------------------------------------------------------
(* Bounds of the model. *)

MaxReads == 2        \* file reads pending at once
MaxCalls == 2        \* remote calls awaited at once
MaxListeners == 2    \* release listeners counted (the count saturates here)

-----------------------------------------------------------------------------
(* Values. *)

Null    == <<>>         \* null of a string|null image cell
NoError == "null"       \* null of the error cell

\* file.size limit of handleFileUpload: 10 * 1024 * 1024
MaxFileSize == 10 * 1024 * 1024

\* A data URL "data:<mime>;base64,<data>", kept as its four pieces.
DataURL(mime, data) == <<"data:", mime, ";base64,", data>>

\* originalImage.split(',')[1]
Base64Of(url) == url[4]

\* originalImage.split(';')[0].split(':')[1]
MimeOf(url) == url[2]

\* The files the user picks: bytes, declared type and size.
Files ==
    { [name |-> "a", type |-> "image/jpeg", data |-> "AAAA", size |-> 2 * 1024 * 1024],
      [name |-> "b", type |-> "image/png",  data |-> "BBBB", size |-> MaxFileSize],
      [name |-> "c", type |-> "image/jpeg", data |-> "CCCC", size |-> MaxFileSize + 1],
      [name |-> "d", type |-> "image/webp", data |-> "DDDD", size |-> 15 * 1024 * 1024] }

\* FileReader.readAsDataURL(file)
ReadAsDataURL(file) == DataURL(file.type, file.data)

TooLargeMessage == "File qua lon. Vui long chon anh duoi 10MB."
NoImageMessage  == "Khong nhan duoc anh ket qua tu AI."
DefaultMessage  == "Da co loi xay ra trong qua trinh xu ly."

\* Messages of the errors the remote client rejects with ("" is an Error without text).
RemoteMessages == {"quota exceeded", ""}

\* Parts of a response: text, or inline image data (payload + media type).
TextPart   == [kind |-> "text", data |-> "caption", mime |-> ""]
ImagePart1 == [kind |-> "inlineData", data |-> "R1", mime |-> "image/jpeg"]
ImagePart2 == [kind |-> "inlineData", data |-> "R2", mime |-> "image/png"]

\* response.candidates?.[0]?.content?.parts || []: the part lists a response brings
PartLists ==
    { <<>>,
      <<TextPart>>,
      <<ImagePart1>>,
      <<ImagePart2>>,
      <<TextPart, ImagePart1>>,
      <<ImagePart1, TextPart>>,
      <<ImagePart1, ImagePart2>>,
      <<ImagePart2, ImagePart1>>,
      <<TextPart, ImagePart2, ImagePart1>>,
      <<ImagePart2, TextPart, ImagePart1>> }

Qualities == {"Standard", "High", "Ultra"}
Styles    == {"Realistic", "OilPainting"}

-----------------------------------------------------------------------------
(* The prompt of handleRestore, lines 70-87.  A template literal is kept   *)
(* as the sequence of its pieces, in order: the literal text, the single   *)
(* spaces between the interpolations, and the interpolated instructions    *)
(* (the style instruction is the empty string for 'Realistic').            *)

ColorizeOn  == "Colorize it with natural skin tones and realistic colors."
ColorizeOff == "Keep the photo in its original black and white or grayscale tones. Do not add any new colors."
UltraColorizeOn  == "Apply sophisticated colorization with multi-layered skin tones, realistic textures, and cinematic color grading."
UltraColorizeOff == "Maintain the original black and white aesthetic with enhanced contrast and clarity."
OilPaintingInstruction == "Transform this photo into a beautiful oil painting. Use rich textures, visible brushstrokes, and vibrant colors typical of a classic oil on canvas masterpiece. Maintain the composition but render it in an artistic, painterly style."
preservationInstruction == "Strictly preserve the original facial features, head shape, hair texture, and shoulder lines. Do not alter the person's identity or physical structure."
StandardBase == "Restore this old photo, remove scratches, noise, and damage."
HighBase     == "Restore this old photo with maximum detail, remove all scratches, noise, and damage."
UltraBase    == "Perform an ultra-high-definition restoration of this old photograph. Meticulously remove every scratch, dust particle, and blemish. Reconstruct missing details with AI precision."
QualityTail  == "High quality, sharp details, professional restoration."
UltraTail    == "The output must be sharp, noise-free, and look like a modern high-resolution photograph while preserving the original essence."

\* Variant: a colour instruction that ignores isColorized.
colorInstructionIgnoresFlag(c) == ColorizeOn

colorInstruction(c) == IF c THEN ColorizeOn ELSE ColorizeOff

styleInstruction(s) == IF s = "OilPainting" THEN OilPaintingInstruction ELSE ""

\* Variant: the 'Ultra' template without ${preservationInstruction}.
BuildPromptUltraNoPreservation(q, c, s) ==
    IF q = "Standard" THEN
        <<StandardBase, " ", colorInstruction(c), " ", styleInstruction(s), " ",
          preservationInstruction, " ", QualityTail>>
    ELSE IF q = "High" THEN
        <<HighBase, " ", colorInstruction(c), " ", styleInstruction(s), " ",
          preservationInstruction, " ", QualityTail>>
    ELSE IF q = "Ultra" THEN
        <<UltraBase, " ", IF c THEN UltraColorizeOn ELSE UltraColorizeOff, " ",
          styleInstruction(s), " ", UltraTail>>
    ELSE <<>>

BuildPrompt(q, c, s) ==
    IF q = "Standard" THEN
        <<StandardBase, " ", colorInstruction(c), " ", styleInstruction(s), " ",
          preservationInstruction, " ", QualityTail>>
    ELSE IF q = "High" THEN
        <<HighBase, " ", colorInstruction(c), " ", styleInstruction(s), " ",
          preservationInstruction, " ", QualityTail>>
    ELSE IF q = "Ultra" THEN
        <<UltraBase, " ", IF c THEN UltraColorizeOn ELSE UltraColorizeOff, " ",
          styleInstruction(s), " ", preservationInstruction, " ", UltraTail>>
    ELSE <<>>

\* The request of lines 89-104: the image part (payload + media type) and the text part.
Request(image, q, c, s) ==
    [data     |-> Base64Of(image),
     mimeType |-> MimeOf(image),
     text     |-> BuildPrompt(q, c, s)]

-----------------------------------------------------------------------------
(* The scan of the response parts, lines 106-118. *)

RECURSIVE FirstImageFrom(_, _)
\* Index of the first part at or after i that carries inlineData, 0 when none.
FirstImageFrom(parts, i) ==
    IF i > Len(parts) THEN 0
    ELSE IF parts[i].kind = "inlineData" THEN i
    ELSE FirstImageFrom(parts, i + 1)

RECURSIVE LastImageFrom(_, _)
LastImageFrom(parts, i) ==
    IF i < 1 THEN 0
    ELSE IF parts[i].kind = "inlineData" THEN i
    ELSE LastImageFrom(parts, i - 1)

\* Variant: the loop without its break, so the last image part wins.
FirstImageNoBreak(parts) == LastImageFrom(parts, Len(parts))

FirstImage(parts) == FirstImageFrom(parts, 1)

\* `data:image/png;base64,${resultBase64}`
ResultURL(part) == DataURL("image/png", part.data)

\* Variant: err.message without the || fallback.
MessageOfNoFallback(msg) == msg

\* err.message || "Da co loi ..."
MessageOf(msg) == IF msg # "" THEN msg ELSE DefaultMessage

-----------------------------------------------------------------------------
(* What the render shows and enables, lines 190-447. *)

\* {!originalImage ? <upload section> : <preview section>}
UploadShown  == originalImage = Null
PreviewShown == originalImage # Null

\* the three option selectors are in the {!restoredImage ? ...} branch
OptionsShown == PreviewShown /\ restoredImage = Null

\* the slider handle: {restoredImage && ...}
HandleShown == PreviewShown /\ restoredImage # Null

\* Variant: the restore buttons without disabled={isProcessing}.
RestoreEnabledNoDisable == PreviewShown

\* both restore buttons: disabled={isProcessing}
RestoreEnabled == PreviewShown /\ ~isProcessing

\* the download button: shown with a restored image, disabled={isProcessing}
DownloadEnabled == PreviewShown /\ restoredImage # Null /\ ~isProcessing

\* Variant: the reset button without disabled={isProcessing}.
ResetEnabledNoDisable == PreviewShown /\ restoredImage # Null

\* the reset button: shown with a restored image, disabled={isProcessing}
ResetEnabled == PreviewShown /\ restoredImage # Null /\ ~isProcessing

\* containerRef.current: the comparison view is mounted with the preview section
ContainerMounted == PreviewShown

-----------------------------------------------------------------------------
(* Helpers on the in-flight collections. *)

PendingCount == LET RECURSIVE Sum(_)
                    Sum(S) == IF S = {} THEN 0
                              ELSE LET f == CHOOSE g \in S : TRUE
                                   IN  pendingReads[f.name] + Sum(S \ {f})
                IN  Sum(Files)

RemoveAt(seq, i) == [j \in 1..(Len(seq) - 1) |-> IF j < i THEN seq[j] ELSE seq[j + 1]]

Min(a, b) == IF a < b THEN a ELSE b

-----------------------------------------------------------------------------
(* The comparison slider, lines 144-165. *)

\* A float: a finite number, +Infinity, -Infinity or NaN.
Num(v)      == [kind |-> "num",  v |-> v]
PlusInf     == [kind |-> "+inf", v |-> 0]
MinusInf    == [kind |-> "-inf", v |-> 0]
NaN         == [kind |-> "nan",  v |-> 0]

\* Math.max(a, 0) and Math.min(a, 100): NaN in, NaN out
MathMax0(a) ==
    IF a.kind = "nan" THEN NaN
    ELSE IF a.kind = "-inf" THEN Num(0)
    ELSE IF a.kind = "+inf" THEN PlusInf
    ELSE IF a.v < 0 THEN Num(0) ELSE a

MathMin100(a) ==
    IF a.kind = "nan" THEN NaN
    ELSE IF a.kind = "+inf" THEN Num(100)
    ELSE IF a.kind = "-inf" THEN MinusInf
    ELSE IF a.v > 100 THEN Num(100) ELSE a

\* Math.min(Math.max(position, 0), 100)
Clamp(position) == MathMin100(MathMax0(position))

\* ((x - rect.left) / rect.width) * 100 in floating point: a zero width gives
\* +Infinity, -Infinity or NaN (0/0).  The non-zero widths of the model are
\* powers of two, so the quotient and the product are exact.
Position(x, left, width) ==
    IF width = 0
    THEN IF x - left > 0 THEN PlusInf ELSE IF x - left < 0 THEN MinusInf ELSE NaN
    ELSE Num(((x - left) * 100) \div width)

MaxX == 1                            \* clientX of an event ranges over 0..MaxX
EventXs  == 0..MaxX
Lefts    == {0, 1}                   \* rect.left
Widths   == {0, 1, 2}                \* rect.width

-----------------------------------------------------------------------------
Init ==
    /\ originalImage = Null
    /\ restoredImage = Null
    /\ isProcessing = FALSE
    /\ error = NoError
    /\ sliderPosition = Num(50)
    /\ quality = "Standard"
    /\ isColorized = TRUE
    /\ artStyle = "Realistic"
    /\ isDragging = FALSE
    /\ pendingReads = [n \in {f.name : f \in Files} |-> 0]
    /\ inflight = <<>>
    /\ releaseListeners = 0
    /\ lastOp = "mount"

-----------------------------------------------------------------------------
(* handleFileUpload, lines 40-55: reached from the file input's onChange   *)
(* and from onDrop, both in the upload section.  The section stays up      *)
(* until a read's onload sets originalImage, so a second file can be       *)
(* picked or dropped while an earlier read is still pending.               *)

\* Variant: the size check with >= in place of >.
HandleFileUploadRejectsAtLimit(file) ==
    /\ UploadShown
    /\ IF file.size >= MaxFileSize
       THEN /\ error' = TooLargeMessage
            /\ lastOp' = "uploadRejected"
            /\ UNCHANGED pendingReads
       ELSE /\ PendingCount < MaxReads
            /\ pendingReads' = [pendingReads EXCEPT ![file.name] = @ + 1]
            /\ lastOp' = "uploadStarted"
            /\ UNCHANGED error
    /\ UNCHANGED <<originalImage, restoredImage, isProcessing, sliderPosition,
                   options, isDragging, inflight, releaseListeners>>


HandleFileUpload(file) ==
    /\ UploadShown
    /\ IF file.size > MaxFileSize
       THEN /\ error' = TooLargeMessage
            /\ lastOp' = "uploadRejected"
            /\ UNCHANGED pendingReads
       ELSE /\ PendingCount < MaxReads
            /\ pendingReads' = [pendingReads EXCEPT ![file.name] = @ + 1]
            /\ lastOp' = "uploadStarted"
            /\ UNCHANGED error
    /\ UNCHANGED <<originalImage, restoredImage, isProcessing, sliderPosition,
                   options, isDragging, inflight, releaseListeners>>

\* reader.onload, lines 48-52
ReaderOnload(file) ==
    /\ pendingReads[file.name] > 0
    /\ pendingReads' = [pendingReads EXCEPT ![file.name] = @ - 1]
    /\ originalImage' = ReadAsDataURL(file)
    /\ restoredImage' = Null
    /\ error' = NoError
    /\ lastOp' = "uploadLoaded"
    /\ UNCHANGED <<isProcessing, sliderPosition, options, isDragging, inflight,
                   releaseListeners>>

-----------------------------------------------------------------------------
(* handleRestore, lines 57-125. *)

\* Up to the await of line 89: the guard of line 58, the two updates of lines
\* 60-61, the prompt and the request.  The client's constructor of line 64 is
\* inside the try: when it throws, catch and finally run in the same turn.
HandleRestore ==
    /\ RestoreEnabled
    /\ originalImage # Null
    /\ \/ /\ Len(inflight) < MaxCalls
          /\ isProcessing' = TRUE
          /\ error' = NoError
          /\ inflight' = Append(inflight,
                                Request(originalImage, quality, isColorized, artStyle))
          /\ lastOp' = "restore"
       \/ /\ \E msg \in RemoteMessages : error' = MessageOf(msg)
          /\ isProcessing' = FALSE
          /\ lastOp' = "restoreThrew"
          /\ UNCHANGED inflight
    /\ UNCHANGED <<originalImage, restoredImage, sliderPosition, options,
                   isDragging, pendingReads, releaseListeners>>

\* The awaited call i resolves with a response: lines 106-118, then 119-124.
RemoteResolve(i, parts) ==
    /\ i \in 1..Len(inflight)
    /\ inflight' = RemoveAt(inflight, i)
    /\ IF FirstImage(parts) # 0
       THEN /\ restoredImage' = ResultURL(parts[FirstImage(parts)])
            /\ lastOp' = "responseImage"
            /\ UNCHANGED error
       ELSE /\ error' = MessageOf(NoImageMessage)
            /\ lastOp' = "responseNoImage"
            /\ UNCHANGED restoredImage
    /\ isProcessing' = FALSE
    /\ UNCHANGED <<originalImage, sliderPosition, options, isDragging,
                   pendingReads, releaseListeners>>

\* Variant: a rejection handled without the finally of lines 122-124.
RemoteRejectNoFinally(i, msg) ==
    /\ i \in 1..Len(inflight)
    /\ inflight' = RemoveAt(inflight, i)
    /\ error' = MessageOf(msg)
    /\ lastOp' = "responseError"
    /\ UNCHANGED <<originalImage, restoredImage, isProcessing, sliderPosition,
                   options, isDragging, pendingReads, releaseListeners>>

\* The awaited call i rejects: lines 119-124.
RemoteReject(i, msg) ==
    /\ i \in 1..Len(inflight)
    /\ inflight' = RemoveAt(inflight, i)
    /\ error' = MessageOf(msg)
    /\ isProcessing' = FALSE
    /\ lastOp' = "responseError"
    /\ UNCHANGED <<originalImage, restoredImage, sliderPosition, options,
                   isDragging, pendingReads, releaseListeners>>

-----------------------------------------------------------------------------
(* handleDownload, lines 127-135, and handleReset, lines 137-142. *)

\* Variant: handleDownload without the guard of line 128, run from any render.
HandleDownloadNoGuard ==
    /\ lastOp' = "download"
    /\ UNCHANGED <<workflow, sliderPosition, options, isDragging, pendingReads,
                   inflight, releaseListeners>>

HandleDownload ==
    /\ DownloadEnabled
    /\ restoredImage # Null
    /\ lastOp' = "download"
    /\ UNCHANGED <<workflow, sliderPosition, options, isDragging, pendingReads,
                   inflight, releaseListeners>>

\* Variant: handleReset without setRestoredImage(null).
\* Variant: handleReset without setSliderPosition(50).
HandleResetKeepsSlider ==
    /\ ResetEnabled
    /\ originalImage' = Null
    /\ restoredImage' = Null
    /\ error' = NoError
    /\ lastOp' = "reset"
    /\ UNCHANGED <<sliderPosition, isProcessing, options, isDragging, pendingReads,
                   inflight, releaseListeners>>

HandleResetKeepsRestored ==
    /\ ResetEnabled
    /\ originalImage' = Null
    /\ error' = NoError
    /\ sliderPosition' = Num(50)
    /\ lastOp' = "reset"
    /\ UNCHANGED <<restoredImage, isProcessing, options, isDragging, pendingReads,
                   inflight, releaseListeners>>

HandleReset ==
    /\ ResetEnabled
    /\ originalImage' = Null
    /\ restoredImage' = Null
    /\ error' = NoError
    /\ sliderPosition' = Num(50)
    /\ lastOp' = "reset"
    /\ UNCHANGED <<isProcessing, options, isDragging, pendingReads, inflight,
                   releaseListeners>>

-----------------------------------------------------------------------------
(* The option selectors, lines 321-403. *)

\* Variant: choosing a quality also clears the error banner.
SetQualityClearsError(q) ==
    /\ OptionsShown
    /\ quality' = q
    /\ error' = NoError
    /\ lastOp' = "setQuality"
    /\ UNCHANGED <<originalImage, restoredImage, isProcessing, sliderPosition,
                   isColorized, artStyle, isDragging, pendingReads, inflight,
                   releaseListeners>>

SetQuality(q) ==
    /\ OptionsShown
    /\ quality' = q
    /\ lastOp' = "setQuality"
    /\ UNCHANGED <<workflow, sliderPosition, isColorized, artStyle, isDragging,
                   pendingReads, inflight, releaseListeners>>

SetIsColorized(c) ==
    /\ OptionsShown
    /\ isColorized' = c
    /\ lastOp' = "setIsColorized"
    /\ UNCHANGED <<workflow, sliderPosition, quality, artStyle, isDragging,
                   pendingReads, inflight, releaseListeners>>

SetArtStyle(s) ==
    /\ OptionsShown
    /\ artStyle' = s
    /\ lastOp' = "setArtStyle"
    /\ UNCHANGED <<workflow, sliderPosition, quality, isColorized, isDragging,
                   pendingReads, inflight, releaseListeners>>

-----------------------------------------------------------------------------
(* The drag session, lines 144-165 and 278-279. *)

\* onMouseDown / onTouchStart on the handle, then the effect of lines 154-165
\* for the render with isDragging = true: it adds the two move listeners and
\* two anonymous release listeners.  A press while already dragging sets the
\* same value: no render, no effect.
\* Variant: the effect without its two release listeners (lines 158-159).
BeginDragNoReleaseListeners ==
    /\ HandleShown
    /\ isDragging' = TRUE
    /\ lastOp' = "beginDrag"
    /\ UNCHANGED <<workflow, sliderPosition, options, pendingReads, inflight,
                   releaseListeners>>

BeginDrag ==
    /\ HandleShown
    /\ isDragging' = TRUE
    /\ releaseListeners' = IF isDragging THEN releaseListeners
                           ELSE Min(releaseListeners + 2, MaxListeners)
    /\ lastOp' = "beginDrag"
    /\ UNCHANGED <<workflow, sliderPosition, options, pendingReads, inflight>>

\* A mousemove / touchmove on the window.  onMouseMove is attached only while
\* isDragging, and returns early without a mounted container.
\* Variant: onMouseMove without the !isDragging test of line 145, left attached.
GlobalMoveNoDragGuard(x, left, width) ==
    /\ sliderPosition' = IF ContainerMounted
                         THEN Clamp(Position(x, left, width))
                         ELSE sliderPosition
    /\ lastOp' = "move"
    /\ UNCHANGED <<workflow, options, isDragging, pendingReads, inflight,
                   releaseListeners>>

GlobalMove(x, left, width) ==
    /\ sliderPosition' = IF isDragging /\ ContainerMounted
                         THEN Clamp(Position(x, left, width))
                         ELSE sliderPosition
    /\ lastOp' = "move"
    /\ UNCHANGED <<workflow, options, isDragging, pendingReads, inflight,
                   releaseListeners>>

\* A mouseup / touchend on the window: every release listener still attached
\* calls setIsDragging(false); the cleanup of lines 161-164 removes only the
\* move listeners.
GlobalRelease ==
    /\ isDragging' = IF releaseListeners > 0 THEN FALSE ELSE isDragging
    /\ lastOp' = "release"
    /\ UNCHANGED <<workflow, sliderPosition, options, pendingReads, inflight,
                   releaseListeners>>

-----------------------------------------------------------------------------
Next ==
    \/ \E file \in Files : HandleFileUpload(file)
    \/ \E file \in Files : ReaderOnload(file)
    \/ HandleRestore
    \/ \E i \in 1..MaxCalls, parts \in PartLists : RemoteResolve(i, parts)
    \/ \E i \in 1..MaxCalls, msg \in RemoteMessages : RemoteReject(i, msg)
    \/ HandleDownload
    \/ HandleReset
    \/ \E q \in Qualities : SetQuality(q)
    \/ \E c \in BOOLEAN : SetIsColorized(c)
    \/ \E s \in Styles : SetArtStyle(s)
    \/ BeginDrag
    \/ \E x \in EventXs, left \in Lefts, width \in Widths : GlobalMove(x, left, width)
    \/ GlobalRelease

Spec == Init /\ [][Next]_vars

-----------------------------------------------------------------------------
(* The workflow states Empty, Loaded and Restored of the specification,    *)
(* read off the four cells.                                                *)

Empty    == originalImage = Null /\ restoredImage = Null /\ error = NoError
              /\ ~isProcessing
Loaded   == originalImage # Null /\ restoredImage = Null /\ error = NoError
              /\ ~isProcessing
Restored == originalImage # Null /\ restoredImage # Null /\ error = NoError
              /\ ~isProcessing

-----------------------------------------------------------------------------
(* C1: at most one remote restoration call is outstanding in every         *)
(* reachable state, a call is outstanding exactly while isProcessing, and  *)
(* while the workflow is Processing no startRestoration can act: the       *)
(* restore control is disabled, so the state stays Processing and no       *)
(* second call is issued.                                                  *)
C1_OneCallOutstanding ==
    /\ Len(inflight) <= 1
    /\ isProcessing <=> Len(inflight) = 1
    /\ isProcessing => ~ENABLED HandleRestore

\* A call is outstanding and the restore button is on screen, disabled.
C1_Witness == Len(inflight) = 1 /\ isProcessing /\ PreviewShown

(* C2, as stated: reset() can be called while a restoration call is in     *)
(* flight (and the response that resolves afterwards is then discarded).   *)
C2_ResetWhileInFlight == Len(inflight) > 0 => ENABLED HandleReset

(* C2, amended: while a restoration call is in flight reset() is not       *)
(* available, so a response never resolves after a reset: whenever a       *)
(* restoration response resolves, the step before it was not a reset       *)
(* since its dispatch, and the original it was dispatched for is present.  *)
C2_NoResetInFlight ==
    Len(inflight) > 0 => /\ ~ENABLED HandleReset
                         /\ originalImage # Null
                         /\ lastOp # "reset"

\* A re-restoration is in flight: the reset button is on screen, disabled.
C2_Witness == Len(inflight) = 1 /\ restoredImage # Null /\ originalImage # Null

(* C3: a restoration response is applied only to the original its request  *)
(* was dispatched for: on every step that applies a response image, the    *)
(* resolved request carries the payload and media type of the current      *)
(* original.                                                               *)
C3_ResponseMatchesOriginal ==
    [][lastOp' = "responseImage" =>
          \E i \in 1..Len(inflight) :
              /\ inflight' = RemoveAt(inflight, i)
              /\ originalImage # Null
              /\ inflight[i].data = Base64Of(originalImage)
              /\ inflight[i].mimeType = MimeOf(originalImage)]_vars

(* C4: the restored image is never non-empty while the original image is   *)
(* empty.                                                                  *)
C4_RestoredNeedsOriginal == originalImage = Null => restoredImage = Null

\* A reset has just cleared an original that had a restored image.
C4_Witness == lastOp = "reset" /\ originalImage = Null /\ restoredImage = Null

-----------------------------------------------------------------------------
(* C5, as stated: an upload of a payload larger than 10 MiB leaves         *)
(* original, restored, error and processing all unchanged.                 *)
C5_RejectLeavesAllUnchanged ==
    [][lastOp' \in {"uploadRejected", "uploadStarted"} =>
          \A file \in Files :
              HandleFileUpload(file) /\ file.size > 10 * 1024 * 1024
                  => UNCHANGED <<originalImage, restoredImage, error, isProcessing>>]_vars

(* C5, amended: an upload is rejected exactly when its payload is larger   *)
(* than 10 MiB; the rejection starts no file read and leaves original,     *)
(* restored and processing unchanged, but it sets the error to the         *)
(* file-too-large message.                                                 *)
C5_RejectSetsOnlyError ==
    [][lastOp' \in {"uploadRejected", "uploadStarted"} =>
          \A file \in Files :
              HandleFileUpload(file) =>
                  /\ (file.size > 10 * 1024 * 1024) <=> (lastOp' = "uploadRejected")
                  /\ file.size > 10 * 1024 * 1024 =>
                        /\ UNCHANGED <<originalImage, restoredImage, isProcessing,
                                       pendingReads, inflight>>
                        /\ error' = TooLargeMessage]_vars

\* An oversized upload has just been rejected.
C5_Witness == lastOp = "uploadRejected" /\ error = TooLargeMessage /\ originalImage = Null

-----------------------------------------------------------------------------
-----------------------------------------------------------------------------
(* C7: for every response part list with at least one inline-image part,   *)
(* the restoration ends in Restored and the restored asset is the PNG data *)
(* URL of the payload of the first inline-image part in list order; later  *)
(* image parts and all text parts leave no trace.                          *)

HasImage(parts) == \E k \in 1..Len(parts) : parts[k].kind = "inlineData"

\* The inline-image part that no inline-image part precedes.
LeastImage(parts) ==
    parts[CHOOSE k \in 1..Len(parts) :
              /\ parts[k].kind = "inlineData"
              /\ \A j \in 1..(k - 1) : parts[j].kind # "inlineData"]

C7_FirstImageWins ==
    [][lastOp' \in {"responseImage", "responseNoImage"} =>
          \A parts \in PartLists :
              \/ ~HasImage(parts)
              \/ /\ restoredImage' = <<"data:", "image/png", ";base64,",
                                       LeastImage(parts).data>>
                 /\ Restored'
              \/ ~\E i \in 1..Len(inflight) : RemoteResolve(i, parts)]_vars

\* A response image has just been applied.
C7_Witness == lastOp = "responseImage" /\ Restored

-----------------------------------------------------------------------------
(* C8, as stated: reset() can be called from any state that holds an       *)
(* image, Processing included.                                             *)
C8_ResetFromAnyState == originalImage # Null => ENABLED HandleReset

(* C8, amended: reset() is offered only when a restored image is present   *)
(* and no restoration is processing; from there it yields Empty: original  *)
(* and restored are cleared, the error is cleared and the slider position  *)
(* is 50.                                                                  *)
C8_ResetYieldsEmpty ==
    [][lastOp' = "reset" =>
          /\ restoredImage # Null /\ originalImage # Null
          /\ ~isProcessing /\ Len(inflight) = 0
          /\ Empty'
          /\ sliderPosition' = [kind |-> "num", v |-> 50]]_vars

\* A reset has just run, after a session in which the slider was dragged.
C8_Witness == lastOp = "reset" /\ Empty /\ releaseListeners > 0

-----------------------------------------------------------------------------
(* C9: a successful upload (payload at most 10 MiB) from any state leaves  *)
(* the workflow Loaded.                                                    *)
C9_UploadYieldsLoaded == lastOp = "uploadLoaded" => Loaded

-----------------------------------------------------------------------------
(* C10: choosing a quality, colorize or style value changes no workflow    *)
(* component and issues no remote call, and leaves every dispatched        *)
(* request as it is; a dispatch sends the prompt of the options selected   *)
(* at that moment.                                                         *)
C10_OptionsOnlyAffectNextRequest ==
    [][/\ lastOp' \in {"setQuality", "setIsColorized", "setArtStyle"} =>
             UNCHANGED <<workflow, inflight, pendingReads, sliderPosition>>
       /\ lastOp' = "restore" =>
             /\ Len(inflight') = Len(inflight) + 1
             /\ inflight'[Len(inflight')].text = BuildPrompt(quality, isColorized, artStyle)
             /\ UNCHANGED options
       /\ Len(inflight') = Len(inflight) => inflight' = inflight]_vars

\* A request is in flight whose prompt is no longer the one of the selected options.
C10_Witness ==
    /\ Len(inflight) = 1
    /\ inflight[1].text # BuildPrompt(quality, isColorized, artStyle)
    /\ lastOp \in {"setQuality", "setIsColorized", "setArtStyle"}

-----------------------------------------------------------------------------
\* C11: handleDownload changes no state: the original, the restored image, the
\* error, the processing flag, the options and the slider position (and what
\* is in flight) are the same after it; it runs its effect only with a
\* restored image, and without one it cannot act at all.
C11_DownloadChangesNothing ==
    [][/\ lastOp' = "download" =>
            /\ restoredImage # Null
            /\ UNCHANGED <<workflow, options, sliderPosition, isDragging,
                           pendingReads, inflight, releaseListeners>>
       /\ restoredImage = Null => ~ENABLED HandleDownload]_vars

\* a download ran, from a state with a restored image
C11_Witness == lastOp = "download" /\ restoredImage # Null /\ originalImage # Null

-----------------------------------------------------------------------------
\* A position inside the track: a finite number of [0, 100].
InRange(p) == p.kind = "num" /\ 0 <= p.v /\ p.v <= 100

\* C12: a move during a drag over a container of width > 0 leaves the slider
\* position in [0, 100], at 0 when the pointer is at or left of the
\* container's left edge and at 100 when it is at or right of its right edge;
\* and the position is in [0, 100] after every step, that is in every
\* reachable state.
C12_PositionInRange ==
    [][/\ \A x \in EventXs, left \in Lefts, width \in Widths \ {0} :
            (isDragging /\ ContainerMounted /\ GlobalMove(x, left, width)) =>
                /\ InRange(sliderPosition')
                /\ x <= left => sliderPosition' = Num(0)
                /\ x >= left + width => sliderPosition' = Num(100)
       /\ InRange(sliderPosition')]_vars

-----------------------------------------------------------------------------
\* C13: a move during a drag over a container of width 0 is a no-op: the
\* slider position keeps its value and is not NaN afterwards.
C13_ZeroWidthIsNoOp ==
    [][\A x \in EventXs, left \in Lefts :
          (isDragging /\ ContainerMounted /\ GlobalMove(x, left, 0)) =>
              /\ sliderPosition' = sliderPosition
              /\ sliderPosition'.kind # "nan"]_vars

-----------------------------------------------------------------------------
\* The drag session's two states.
Idle     == ~isDragging
Dragging == isDragging

\* C14: every drag session ends on release: whenever the controller is
\* Dragging a release listener is attached to the window (the press and the
\* effect that attaches it are one step, so no release can come between), and
\* every mouseup / touchend leaves the controller Idle.
C14_ReleaseEndsDrag ==
    [][/\ Dragging' => releaseListeners' > 0
       /\ lastOp' = "release" => Idle']_vars

\* a release arrived after some press had attached its listeners, and the
\* controller is Idle with the handle still shown
C14_Witness == lastOp = "release" /\ Idle /\ releaseListeners > 0 /\ HandleShown

-----------------------------------------------------------------------------
(* The fragments of a prompt, read off the three templates of lines 80-86. *)

\* the literal text that opens the template of quality q
QualityBase(q) ==
    IF q = "Standard" THEN StandardBase
    ELSE IF q = "High" THEN HighBase
    ELSE UltraBase

\* the colour text of the template of quality q: ${colorInstruction} for
\* 'Standard' and 'High', the inline conditional of line 85 for 'Ultra'
ColorizationOf(q, c) ==
    IF q = "Ultra" THEN (IF c THEN UltraColorizeOn ELSE UltraColorizeOff)
    ELSE colorInstruction(c)

\* the literal text that closes the template of quality q
TailOf(q) == IF q = "Ultra" THEN UltraTail ELSE QualityTail

\* A string kept as pieces, without its empty pieces.
Compact(pieces) == SelectSeq(pieces, LAMBDA t : t # "")

\* The pieces of fragments joined by single spaces.
JoinBySpaces(fragments) ==
    [k \in 1..(IF Len(fragments) = 0 THEN 0 ELSE 2 * Len(fragments) - 1) |->
        IF k % 2 = 1 THEN fragments[(k + 1) \div 2] ELSE " "]

\* The prompt as four fragments in order, the empty ones left out.
FourFragments(q, c, s) ==
    JoinBySpaces(Compact(<<QualityBase(q), ColorizationOf(q, c), styleInstruction(s),
                           preservationInstruction>>))

\* the text part of the request dispatched last
LastText == inflight[Len(inflight)].text

\* C15 as claimed: the prompt of every request is exactly the four fragments
\* quality base, colorization, style, identity preservation, in that order,
\* joined by single spaces, with nothing after the identity fragment and no
\* extra space for an empty style.
C15_PromptIsFourFragments ==
    [][lastOp' = "restore" =>
          Compact(LastText') = FourFragments(quality, isColorized, artStyle)]_vars

\* C15 as the code has it: the prompt of every request is five pieces in
\* order, quality base, colorization, style, identity preservation and the
\* closing text of the quality tier, each two separated by a single space.  The
\* identity fragment is always present and fourth, the closing text is never
\* empty and last, and the style piece is empty exactly for 'Realistic', where
\* its two separators stand next to each other.
C15_PromptIsFivePieces ==
    [][lastOp' = "restore" =>
          /\ Len(LastText') = 9
          /\ \A k \in {2, 4, 6, 8} : LastText'[k] = " "
          /\ LastText'[1] = QualityBase(quality)
          /\ LastText'[3] = ColorizationOf(quality, isColorized)
          /\ LastText'[5] = styleInstruction(artStyle)
          /\ LastText'[5] = "" <=> artStyle = "Realistic"
          /\ LastText'[7] = preservationInstruction
          /\ LastText'[9] = TailOf(quality)
          /\ \A k \in {1, 3, 7, 9} : LastText'[k] # ""]_vars

\* an 'Ultra' request with the empty style piece is awaited
C15_Witness ==
    /\ lastOp = "restore"
    /\ quality = "Ultra" /\ artStyle = "Realistic"
    /\ Len(inflight) = 1
    /\ LastText[5] = "" /\ LastText[7] = preservationInstruction

-----------------------------------------------------------------------------
\* C16 as claimed: the colorization fragment of every request is one fixed
\* string when isColorized is true and another fixed string when it is false,
\* whatever the quality and the style.
C16_ColorizationIsFixedPair ==
    [][lastOp' = "restore" =>
          /\ ColorizeOn # ColorizeOff
          /\ LastText'[3] = (IF isColorized THEN ColorizeOn ELSE ColorizeOff)]_vars

\* C16 as the code has it: the colorization fragment depends on isColorized
\* and on the quality tier, not on the style: 'Standard' and 'High' share one
\* pair of strings, 'Ultra' has a pair of its own, and for every quality and
\* style the string for true differs from the string for false.
C16_ColorizationPerTier ==
    [][lastOp' = "restore" =>
          /\ \A s \in Styles :
                LastText'[3] = BuildPrompt(quality, isColorized, s)[3]
          /\ \A s \in Styles :
                LastText'[3] # BuildPrompt(quality, ~isColorized, s)[3]
          /\ quality # "Ultra" =>
                LastText'[3] = (IF isColorized THEN ColorizeOn ELSE ColorizeOff)
          /\ quality = "Ultra" =>
                /\ LastText'[3] = (IF isColorized THEN UltraColorizeOn
                                                 ELSE UltraColorizeOff)
                /\ LastText'[3] \notin {ColorizeOn, ColorizeOff}]_vars

\* an 'Ultra' request without colorization is awaited
C16_Witness ==
    /\ lastOp = "restore"
    /\ quality = "Ultra" /\ ~isColorized
    /\ Len(inflight) = 1
    /\ LastText[3] = UltraColorizeOff

-----------------------------------------------------------------------------
(* The workflow states Processing and Failed of the specification. *)

Processing == originalImage # Null /\ isProcessing /\ error = NoError
Failed     == originalImage # Null /\ restoredImage = Null /\ error # NoError
                /\ ~isProcessing

\* C17: in every reachable state the four cells match exactly one of Empty,
\* Loaded, Processing, Restored and Failed; an error is never present with a
\* restored image nor with an empty original.
C17_ExactlyOneState ==
    /\ LET active == <<Empty, Loaded, Processing, Restored, Failed>>
       IN  Cardinality({k \in DOMAIN active : active[k]}) = 1
    /\ error # NoError => (restoredImage = Null /\ originalImage # Null)

-----------------------------------------------------------------------------
(* The listeners the effect of lines 154-165 has on the window. *)

\* mousemove + touchmove: added by the effect of a render with isDragging,
\* removed by that effect's cleanup when isDragging changes
MoveListeners == IF isDragging THEN 2 ELSE 0

\* every global listener currently attached
AttachedListeners == MoveListeners + releaseListeners

\* C18: no global listener outlives its drag session: whenever the controller
\* is Idle, the number of move and release listeners attached is zero.
C18_NoListenersWhenIdle == Idle => AttachedListeners = 0

-----------------------------------------------------------------------------
\* C19: the slider position changes only by a move received while Dragging
\* or by handleReset: a move received while Idle leaves it as it was, and so
\* do a press, a release, an upload and its onload, a restore, a response and
\* a download.
C19_PositionChangesOnlyByDragOrReset ==
    [][/\ sliderPosition' # sliderPosition =>
            \/ lastOp' = "move" /\ Dragging
            \/ lastOp' = "reset"
       /\ (lastOp' = "move" /\ Idle) => sliderPosition' = sliderPosition
       /\ lastOp' \in {"beginDrag", "release", "uploadStarted", "uploadRejected",
                       "uploadLoaded", "restore", "restoreThrew", "responseImage",
                       "responseNoImage", "responseError", "download"} =>
            sliderPosition' = sliderPosition]_vars

\* a move arrived while Idle and the position still has the value a past
\* session left
C19_Witness ==
    lastOp = "move" /\ Idle /\ HandleShown /\ sliderPosition = Num(100)

-----------------------------------------------------------------------------
\* C20: a restoration leaves Processing when its call settles: every step
\* that settles a call, with an image, without one or with an error, and the
\* step of a request that failed before it was sent, ends with the processing
\* flag cleared; and the flag is never set while no call is awaited.
C20_SettleClearsProcessing ==
    [][/\ Len(inflight') < Len(inflight) => ~isProcessing'
       /\ lastOp' \in {"responseImage", "responseNoImage", "responseError",
                       "restoreThrew"} => ~isProcessing'
       /\ isProcessing' => Len(inflight') > 0]_vars

\* a re-restoration was rejected: the flag is cleared and nothing is awaited
C20_Witness ==
    /\ lastOp = "responseError"
    /\ ~isProcessing /\ Len(inflight) = 0
    /\ originalImage # Null /\ restoredImage # Null

====
